---- MODULE Spec2Model ----
(***************************************************************************)
(* Elementary-cycle enumeration: Tarjan SCC preprocessing followed by the  *)
(* Szwarcfiter-Lauer search (week2/TRSL.py), and the week-1 reference      *)
(* (week1/SL1.py) that searches the whole graph.  The recursive procedures *)
(* _strongconnect, cycle and _unmark are unfolded into explicit frame      *)
(* stacks; every action is one straight-line piece of the Python code.     *)
(***************************************************************************)
EXTENDS Integers, Sequences, FiniteSets, TLC

VARIABLES
    graph,             \* the input mapping vertex -> ordered successor list
    mode,              \* which driver is running: "week2", "week1", "anyorder",
                       \* "rerun", "dedup"
    pc,                \* position of the driver
    index,             \* TarjanPreprocessing.index
    tstack,            \* TarjanPreprocessing.stack
    indices,           \* TarjanPreprocessing.indices
    lowlink,           \* TarjanPreprocessing.lowlink
    on_stack,          \* TarjanPreprocessing.on_stack
    sccs,              \* TarjanPreprocessing.sccs
    tframes,           \* activation records of _strongconnect
    node_i,            \* cursor of "for node in self.graph"
    scc_i,             \* cursor of "for scc_nodes in sccs"
    total_cycles,      \* total_cycles / actual_cycles of the driver
    nodes,             \* SzwarcfiterLauer.nodes
    A,                 \* SzwarcfiterLauer.A
    B,                 \* SzwarcfiterLauer.B
    mark,              \* SzwarcfiterLauer.mark
    reach,             \* SzwarcfiterLauer.reach
    position,          \* SzwarcfiterLauer.position
    stack,             \* SzwarcfiterLauer.stack
    all_cycles,        \* SzwarcfiterLauer.all_cycles
    frames,            \* activation records of cycle
    uframes,           \* activation records of _unmark
    start_candidates,  \* run(): the sorted start vertices
    cand_i,            \* cursor of "for s in start_candidates"
    results            \* the cycle list each finished driver returned

tarjanVars == <<index, tstack, indices, lowlink, on_stack, sccs, tframes, node_i>>
slVars == <<nodes, A, B, mark, reach, position, stack, all_cycles, frames,
            uframes, start_candidates, cand_i>>
vars == <<graph, mode, pc, tarjanVars, scc_i, total_cycles, slVars, results>>

(***************************************************************************)
(* Bounds of the model.                                                    *)
(***************************************************************************)
MaxVertex == 3
MaxDangling == 1
MaxIrregularEdges == 3
MaxRepeatedEdges == 5
MaxRecursion == 12

Vertices == 1..MaxVertex
Targets == 1..(MaxVertex + MaxDangling)

(***************************************************************************)
(* Sequence helpers (Python list operations).                              *)
(***************************************************************************)
Range(s) == {s[i] : i \in DOMAIN s}

Contains(s, x) == \E i \in DOMAIN s : s[i] = x

NoRepeat(s) == \A i, j \in DOMAIN s : i # j => s[i] # s[j]

\* min() that keeps its first argument.
MinLeft(a, b) == a

Min(a, b) == IF a <= b THEN a ELSE b

\* list.remove(y): drops the first occurrence of y
RemoveFirst(s, y) ==
    LET k == CHOOSE i \in DOMAIN s : s[i] = y /\ \A j \in 1..(i - 1) : s[j] # y
    IN  SubSeq(s, 1, k - 1) \o SubSeq(s, k + 1, Len(s))

\* stack[idx:] for a 0-based idx
SliceFrom(s, idx) == SubSeq(s, idx + 1, Len(s))

SeqsUpTo(S, n) == UNION {[1..k -> S] : k \in 0..n}

Flatten(ss) ==
    LET RECURSIVE F(_)
        F(k) == IF k = 0 THEN <<>> ELSE F(k - 1) \o ss[k]
    IN  F(Len(ss))

\* dict.get(v, [])
Get(g, v) == IF v \in DOMAIN g THEN g[v] ELSE <<>>

\* "for node in self.graph": the keys in insertion order
Keys(g) == [i \in 1..Cardinality(DOMAIN g) |-> i]

(***************************************************************************)
(* The graphs the drivers are run on.                                      *)
(***************************************************************************)
WellFormed(g) == \A v \in DOMAIN g : Range(g[v]) \subseteq DOMAIN g

NoRepeatedSuccessors(g) == \A v \in DOMAIN g : NoRepeat(g[v])

EdgeCount(g) ==
    LET RECURSIVE S(_)
        S(k) == IF k = 0 THEN 0 ELSE S(k - 1) + Len(g[k])
    IN  S(Cardinality(DOMAIN g))

RegularLists == {s \in SeqsUpTo(Vertices, MaxVertex) : NoRepeat(s)}

IrregularLists == SeqsUpTo(Targets, MaxIrregularEdges)

\* Fixture A (SL1.py lines 115-122) and Fixture B (testing.py lines 38-45).
FixtureA == <<<<2, 3>>, <<1, 3>>, <<4, 1>>, <<5, 6, 3>>, <<4, 6>>, <<3, 4, 5>>>>

FixtureB == <<<<2>>, <<1, 3>>, <<4, 5>>, <<5>>, <<3, 6>>, <<>>>>

\* The well-formed graphs of at most MaxRepeatedEdges edge entries, repeated
\* entries allowed: a sequence of entries cut into the vertices' lists.
RepeatedGraphs ==
    LET Cuts(n) == {c \in [0..MaxVertex -> 0..n] :
                       /\ c[0] = 0
                       /\ c[MaxVertex] = n
                       /\ \A v \in Vertices : c[v - 1] <= c[v]}
    IN  UNION {{[v \in Vertices |-> SubSeq(s, c[v - 1] + 1, c[v])] : c \in Cuts(Len(s))} :
               s \in SeqsUpTo(Vertices, MaxRepeatedEdges)}

\* Every graph on MaxVertex vertices without repeated successors, every graph
\* of at most MaxIrregularEdges edges with repeats and dangling targets, every
\* well-formed graph of at most MaxRepeatedEdges edges with repeats, and the
\* two fixtures.
Graphs ==
    [Vertices -> RegularLists]
    \cup {g \in [Vertices -> IrregularLists] : EdgeCount(g) <= MaxIrregularEdges}
    \cup RepeatedGraphs
    \cup {FixtureA, FixtureB}

(***************************************************************************)
(* TarjanPreprocessing.                                                    *)
(***************************************************************************)
TopT == tframes[Len(tframes)]

\* sys.setrecursionlimit, line 5: a call beyond the limit raises RecursionError.
Overflow == Len(tframes) + Len(frames) + Len(uframes) >= MaxRecursion

Crash(unchanged) == pc' = "crashed" /\ UNCHANGED unchanged

\* _strongconnect(v), lines 28-32: number v and push it.
EnterStrongconnect(v) ==
    /\ pc' = pc
    /\ indices' = indices @@ (v :> index)
    /\ lowlink' = lowlink @@ (v :> index)
    /\ index' = index + 1
    /\ tstack' = Append(tstack, v)
    /\ on_stack' = on_stack \cup {v}
    /\ tframes' = Append(tframes, [v |-> v, i |-> 1])

\* get_sccs: one turn of "for node in self.graph".
GetSccsNode ==
    /\ pc = "tarjan"
    /\ tframes = <<>>
    /\ node_i <= Len(Keys(graph))
    /\ node_i' = node_i + 1
    /\ IF Keys(graph)[node_i] \in DOMAIN indices
          THEN UNCHANGED <<pc, index, tstack, indices, lowlink, on_stack, tframes>>
          ELSE IF Overflow
                  THEN Crash(<<index, tstack, indices, lowlink, on_stack, tframes>>)
                  ELSE EnterStrongconnect(Keys(graph)[node_i])
    /\ UNCHANGED <<graph, mode, sccs, scc_i, total_cycles, slVars, results>>

\* get_sccs: the loop is over, return self.sccs to the driver.
GetSccsReturn ==
    /\ pc = "tarjan"
    /\ tframes = <<>>
    /\ node_i > Len(Keys(graph))
    /\ pc' = "orchestrate"
    /\ scc_i' = 1
    /\ UNCHANGED <<graph, mode, tarjanVars, total_cycles, slVars, results>>

\* _strongconnect, lines 34-39: one successor w of the vertex on top.
StrongconnectEdge ==
    /\ pc = "tarjan"
    /\ tframes # <<>>
    /\ TopT.i <= Len(Get(graph, TopT.v))
    /\ LET v == TopT.v
           w == Get(graph, TopT.v)[TopT.i]
       IN  IF w \notin DOMAIN indices
              THEN IF Overflow
                      THEN Crash(<<index, tstack, indices, lowlink, on_stack, tframes>>)
                      ELSE EnterStrongconnect(w)
              ELSE /\ lowlink' = IF w \in on_stack
                                    THEN [lowlink EXCEPT ![v] = Min(lowlink[v], indices[w])]
                                    ELSE lowlink
                   /\ tframes' = [tframes EXCEPT ![Len(tframes)].i = @ + 1]
                   /\ UNCHANGED <<pc, index, tstack, indices, on_stack>>
    /\ UNCHANGED <<graph, mode, sccs, node_i, scc_i, total_cycles, slVars, results>>

\* lines 41: is v the root of a component?
IsSccRoot(v) == lowlink[v] = indices[v]

\* lines 42-47: the vertices popped off the stack down to v, in pop order.
PoppedScc(st, v) ==
    LET k == CHOOSE i \in DOMAIN st : st[i] = v /\ \A j \in (i + 1)..Len(st) : st[j] # v
    IN  [i \in 1..(Len(st) - k + 1) |-> st[Len(st) - i + 1]]

\* _strongconnect, lines 41-48, and line 37 of the caller it returns to.
StrongconnectReturn ==
    /\ pc = "tarjan"
    /\ tframes # <<>>
    /\ TopT.i > Len(Get(graph, TopT.v))
    /\ LET v == TopT.v
           scc == PoppedScc(tstack, v)
           rest == SubSeq(tframes, 1, Len(tframes) - 1)
       IN  /\ IF IsSccRoot(v)
                 THEN /\ tstack' = SubSeq(tstack, 1, Len(tstack) - Len(scc))
                      /\ on_stack' = on_stack \ Range(scc)
                      /\ sccs' = Append(sccs, scc)
                 ELSE UNCHANGED <<tstack, on_stack, sccs>>
           /\ IF rest = <<>>
                 THEN /\ tframes' = rest
                      /\ lowlink' = lowlink
                 ELSE /\ tframes' = [rest EXCEPT ![Len(rest)].i = @ + 1]
                      /\ lowlink' = [lowlink EXCEPT ![rest[Len(rest)].v] =
                                        Min(lowlink[rest[Len(rest)].v], lowlink[v])]
    /\ UNCHANGED <<graph, mode, pc, index, indices, node_i, scc_i, total_cycles,
                   slVars, results>>

(***************************************************************************)
(* SzwarcfiterLauer: construction and run().                               *)
(***************************************************************************)
\* A that keeps the edges leaving nodes_subset.
InducedAUnfiltered(g, ns) == [u \in Range(ns) |-> Get(g, u)]

\* TRSL.py lines 56-60: A holds only the edges with both ends in nodes_subset.
InducedA(g, ns) ==
    [u \in Range(ns) |-> SelectSeq(Get(g, u), LAMBDA v : v \in Range(ns))]

\* SL1.py line 20: A is a copy of the whole graph.
CopiedA(g) == [u \in DOMAIN g |-> g[u]]

\* run(): indegrees[v], the number of entries v in the lists of adj.
Indegree(adj, v) ==
    LET RECURSIVE S(_)
        Occurs(l) == Cardinality({i \in DOMAIN l : l[i] = v})
        S(U) == IF U = {} THEN 0
                ELSE LET u == CHOOSE x \in U : TRUE
                     IN  Occurs(adj[u]) + S(U \ {u})
    IN  S(DOMAIN adj)

\* The start candidates left in the order of the component's list.
StartCandidatesUnsorted(ns, adj) == ns

\* run(), lines 110-115: the start candidates by descending in-degree.
\* sorted(..., reverse=True) is stable: the entry at index i comes after the
\* entries of larger in-degree and the earlier entries of equal in-degree.
StartCandidates(ns, adj) ==
    LET indegrees == [u \in Range(ns) |-> Indegree(adj, u)]
        rank(i) == 1 + Cardinality({j \in DOMAIN ns :
                          \/ indegrees[ns[j]] > indegrees[ns[i]]
                          \/ indegrees[ns[j]] = indegrees[ns[i]] /\ j < i})
    IN  [r \in DOMAIN ns |-> ns[CHOOSE i \in DOMAIN ns : rank(i) = r]]

OrdersOf(ns) ==
    {p \in [1..Len(ns) -> Range(ns)] : \A i, j \in 1..Len(ns) : i # j => p[i] # p[j]}

\* The driver's test without the self-loop lookup.
QualifiesBySize(g, scc_nodes) == Len(scc_nodes) >= 2

\* No component is skipped.
QualifiesAlways(g, scc_nodes) == TRUE

\* The driver's test, lines 140-143: a lone vertex without self-loop is skipped.
Qualifies(g, scc_nodes) ==
    ~(Len(scc_nodes) < 2 /\ ~Contains(Get(g, scc_nodes[1]), scc_nodes[1]))

\* __init__ and the head of run(): a fresh search context over ns with
\* working adjacency adj, the start candidates in the order cands.
NewDetector(ns, adj, cands) ==
    /\ nodes' = ns
    /\ A' = adj
    /\ B' = [u \in Range(ns) |-> <<>>]
    /\ mark' = [u \in Range(ns) |-> FALSE]
    /\ reach' = [u \in Range(ns) |-> FALSE]
    /\ position' = [u \in Range(ns) |-> 0]
    /\ stack' = <<>>
    /\ all_cycles' = <<>>
    /\ frames' = <<>>
    /\ uframes' = <<>>
    /\ start_candidates' = cands
    /\ cand_i' = 1

\* The driver, lines 138-143: the component is skipped.
SkipScc ==
    /\ pc = "orchestrate"
    /\ scc_i <= Len(sccs)
    /\ ~Qualifies(graph, sccs[scc_i])
    /\ scc_i' = scc_i + 1
    /\ UNCHANGED <<graph, mode, pc, tarjanVars, total_cycles, slVars, results>>

\* The driver, line 146, and run() up to its loop.  In mode "anyorder" the
\* start candidates are tried in an arbitrary order instead.
StartDetector ==
    /\ pc = "orchestrate"
    /\ scc_i <= Len(sccs)
    /\ Qualifies(graph, sccs[scc_i])
    /\ \E cands \in IF mode = "anyorder"
                       THEN OrdersOf(sccs[scc_i])
                       ELSE {StartCandidates(sccs[scc_i], InducedA(graph, sccs[scc_i]))} :
          NewDetector(sccs[scc_i], InducedA(graph, sccs[scc_i]), cands)
    /\ pc' = "run"
    /\ UNCHANGED <<graph, mode, tarjanVars, scc_i, total_cycles, results>>

\* The driver's loop is over: it holds the cycles of every component.
Finish ==
    /\ pc = "orchestrate"
    /\ scc_i > Len(sccs)
    /\ results' = [results EXCEPT ![mode] = total_cycles]
    /\ pc' = "done"
    /\ UNCHANGED <<graph, mode, tarjanVars, scc_i, total_cycles, slVars>>

(***************************************************************************)
(* SzwarcfiterLauer: cycle, _nocycle, _unmark.                             *)
(***************************************************************************)
Top == frames[Len(frames)]

TopU == uframes[Len(uframes)]

\* The threshold tightened on every entry, reached or not.
ThresholdAlwaysTightened(reached, q, t) == t

\* The threshold tightened for the vertices already concluded instead.
ThresholdInverted(reached, q, t) == IF reached THEN t ELSE q

\* line 87: the threshold of an activation entered at depth t.
Threshold(reached, q, t) == IF ~reached THEN t ELSE q

\* _nocycle that does not record the blocked predecessor.
NocycleBDropped(b, x, y) == b

\* _nocycle with its arguments swapped: y recorded in B[x].
NocycleBSwapped(b, x, y) == [b EXCEPT ![x] = Append(@, y)]

\* _nocycle(x, y), lines 70-71, on the blocking lists.
NocycleB(b, x, y) == [b EXCEPT ![y] = Append(@, x)]

\* _nocycle that leaves the blocked edge in A[x].
NocycleAKept(a, x, y) == a

\* _nocycle(x, y), lines 70-71, on the working adjacency.
NocycleA(a, x, y) == IF Contains(a[x], y) THEN [a EXCEPT ![x] = RemoveFirst(@, y)] ELSE a

\* The closing test with a strict comparison.
ClosesCycleStrict(pos, q) == pos < q

\* line 95: does the edge into the marked vertex at depth pos close a new cycle?
ClosesCycle(pos, q) == pos <= q

\* The cycle sliced from the bottom of the stack.
WholeStackCycle(st, pos, w) == st \o <<w>>

\* lines 96-97: the cycle closed by the edge into w.
ClosedCycle(st, pos, w) == SliceFrom(st, pos - 1) \o <<w>>

\* The mark test that never sees a mark.
IsMarkedNever(m, w) == FALSE

\* The test made on the reach flag instead of the mark.
IsMarkedByReach(m, w) == reach[w]

\* line 92: is w marked?
IsMarked(m, w) == m[w]

\* _unmark that leaves the mark set.
UnmarkedKept(m, x) == m

\* _unmark(x), line 74.
Unmarked(m, x) == [m EXCEPT ![x] = FALSE]

\* _unmark that does not put the blocked edge back.
RestoredADropped(a, y, x) == a

\* _unmark(x), line 76: the blocked edge y -> x is put back at the end of A[y].
RestoredA(a, y, x) == [a EXCEPT ![y] = Append(@, x)]

\* _unmark that leaves the blocking list as it is.
ClearedBKept(b, x) == b

\* _unmark(x), line 78.
ClearedB(b, x) == [b EXCEPT ![x] = <<>>]

\* The reset to the vertex count, one short of the sentinel.
SentinelShort(ns) == Len(ns)

\* lines 53 and 105: the position of a vertex that is not on the stack, N + 1.
Sentinel(ns) == Len(ns) + 1

\* A whose lists are the input mapping's own lists: a write to A[u] is a
\* write to the input.
GraphAliased(g, a) == [u \in DOMAIN g |-> IF u \in DOMAIN a THEN a[u] ELSE g[u]]

\* The input mapping after a write to the working adjacency.  __init__ fills A
\* with lists of its own (lines 56-60; SL1.py line 20 copies with list()), so
\* the input keeps its lists.
GraphAfter(g, a) == g

\* cycle(v, q), lines 81-89: mark and push v, fix the threshold, snapshot A[v].
\* The activation also remembers what held when it was entered: whether v had
\* never been concluded (fresh) and how many cycles had been found (n).
EnterCycle(v, q, rest) ==
    /\ pc' = pc
    /\ mark' = [mark EXCEPT ![v] = TRUE]
    /\ stack' = Append(stack, v)
    /\ position' = [position EXCEPT ![v] = Len(stack) + 1]
    /\ frames' = Append(rest, [v |-> v, q |-> Threshold(reach[v], q, Len(stack) + 1),
                               f |-> FALSE, snap |-> Get(A, v), i |-> 1, st |-> "loop",
                               fresh |-> ~reach[v], n |-> Len(all_cycles)])

\* run(), lines 116-118: one start candidate.
RunCandidate ==
    /\ pc = "run"
    /\ frames = <<>>
    /\ cand_i <= Len(start_candidates)
    /\ cand_i' = cand_i + 1
    /\ IF reach[start_candidates[cand_i]]
          THEN UNCHANGED <<pc, mark, stack, position, frames>>
          ELSE IF Overflow
                  THEN Crash(<<mark, stack, position, frames>>)
                  ELSE EnterCycle(start_candidates[cand_i], 0, frames)
    /\ UNCHANGED <<graph, mode, tarjanVars, scc_i, total_cycles, nodes, A, B, reach,
                   all_cycles, uframes, start_candidates, results>>

\* run(), line 119, and what the caller does with the list: the week-2 driver
\* extends total_cycles (line 147), the week-1 main keeps it (SL1.py line 125).
RunReturn ==
    /\ pc = "run"
    /\ frames = <<>>
    /\ cand_i > Len(start_candidates)
    /\ IF mode = "week1"
          THEN /\ results' = [results EXCEPT ![mode] = all_cycles]
               /\ pc' = "done"
               /\ UNCHANGED <<scc_i, total_cycles>>
          ELSE /\ total_cycles' = total_cycles \o all_cycles
               /\ scc_i' = scc_i + 1
               /\ pc' = "orchestrate"
               /\ UNCHANGED results
    /\ UNCHANGED <<graph, mode, tarjanVars, slVars>>

\* cycle, lines 89-100: one entry w of the snapshot of A[v].
CycleEdge ==
    /\ pc = "run"
    /\ frames # <<>>
    /\ Top.st = "loop"
    /\ Top.i <= Len(Top.snap)
    /\ LET v == Top.v
           q == Top.q
           w == Top.snap[Top.i]
           next == [frames EXCEPT ![Len(frames)].i = @ + 1]
       IN  IF ~Contains(A[v], w)
              THEN /\ frames' = next
                   /\ UNCHANGED <<graph, pc, A, B, mark, position, stack, all_cycles>>
           ELSE IF w \notin DOMAIN mark
              THEN Crash(<<graph, A, B, mark, position, stack, all_cycles, frames>>)
           ELSE IF ~IsMarked(mark, w)
              THEN IF Overflow
                      THEN Crash(<<graph, A, B, mark, position, stack, all_cycles, frames>>)
                      ELSE /\ EnterCycle(w, q, frames)
                           /\ UNCHANGED <<graph, A, B, all_cycles>>
           ELSE IF ClosesCycle(position[w], q)
              THEN /\ all_cycles' = Append(all_cycles, ClosedCycle(stack, position[w], w))
                   /\ frames' = [next EXCEPT ![Len(frames)].f = TRUE]
                   /\ UNCHANGED <<graph, pc, A, B, mark, position, stack>>
           ELSE /\ B' = NocycleB(B, v, w)
                /\ A' = NocycleA(A, v, w)
                /\ graph' = GraphAfter(graph, A')
                /\ frames' = next
                /\ UNCHANGED <<pc, mark, position, stack, all_cycles>>
    /\ UNCHANGED <<mode, tarjanVars, scc_i, total_cycles, nodes, reach, uframes,
                   start_candidates, cand_i, results>>

\* cycle, lines 102-103: pop v; if a cycle was found, _unmark(v) starts
\* (lines 74-75: clear the mark, snapshot B[v]).  An _unmark activation also
\* remembers A, B and mark as they were when it was entered (pre).
CycleExit ==
    /\ pc = "run"
    /\ frames # <<>>
    /\ Top.st = "loop"
    /\ Top.i > Len(Top.snap)
    /\ stack' = SubSeq(stack, 1, Len(stack) - 1)
    /\ frames' = [frames EXCEPT ![Len(frames)].st = "exit"]
    /\ IF ~Top.f
          THEN UNCHANGED <<pc, mark, uframes>>
          ELSE IF Overflow
                  THEN Crash(<<mark, uframes>>)
                  ELSE /\ pc' = pc
                       /\ mark' = Unmarked(mark, Top.v)
                       /\ uframes' = <<[x |-> Top.v, snap |-> B[Top.v], i |-> 1,
                                         pre |-> [A |-> A, B |-> B, mark |-> mark]]>>
    /\ UNCHANGED <<graph, mode, tarjanVars, scc_i, total_cycles, nodes, A, B, reach,
                   position, all_cycles, start_candidates, cand_i, results>>

\* _unmark(x), lines 75-77: one entry y of the snapshot of B[x].
UnmarkEdge ==
    /\ pc = "run"
    /\ uframes # <<>>
    /\ TopU.i <= Len(TopU.snap)
    /\ LET x == TopU.x
           y == TopU.snap[TopU.i]
           next == [uframes EXCEPT ![Len(uframes)].i = @ + 1]
       IN  /\ A' = RestoredA(A, y, x)
           /\ graph' = GraphAfter(graph, A')
           /\ IF ~mark[y]
                 THEN /\ uframes' = next
                      /\ UNCHANGED <<pc, mark>>
                 ELSE IF Overflow
                         THEN Crash(<<mark, uframes>>)
                         ELSE /\ pc' = pc
                              /\ mark' = Unmarked(mark, y)
                              /\ uframes' = Append(next,
                                      [x |-> y, snap |-> B[y], i |-> 1,
                                       pre |-> [A |-> A', B |-> B, mark |-> mark]])
    /\ UNCHANGED <<mode, tarjanVars, scc_i, total_cycles, nodes, B, reach,
                   position, stack, all_cycles, frames, start_candidates, cand_i, results>>

\* _unmark(x), line 78: clear B[x] and return.
UnmarkReturn ==
    /\ pc = "run"
    /\ uframes # <<>>
    /\ TopU.i > Len(TopU.snap)
    /\ B' = ClearedB(B, TopU.x)
    /\ uframes' = SubSeq(uframes, 1, Len(uframes) - 1)
    /\ UNCHANGED <<graph, mode, pc, tarjanVars, scc_i, total_cycles, nodes, A, mark, reach,
                   position, stack, all_cycles, frames, start_candidates, cand_i, results>>

\* cycle, lines 104-106, and lines 93-94 of the caller it returns f to.
CycleReturn ==
    /\ pc = "run"
    /\ frames # <<>>
    /\ Top.st = "exit"
    /\ uframes = <<>>
    /\ LET v == Top.v
           f == Top.f
           rest == SubSeq(frames, 1, Len(frames) - 1)
           caller == rest[Len(rest)]
       IN  /\ reach' = [reach EXCEPT ![v] = TRUE]
           /\ position' = [position EXCEPT ![v] = Sentinel(nodes)]
           /\ IF rest = <<>>
                 THEN /\ frames' = rest
                      /\ UNCHANGED <<graph, A, B>>
              ELSE IF f
                 THEN /\ frames' = [rest EXCEPT ![Len(rest)].f = TRUE,
                                                ![Len(rest)].i = @ + 1]
                      /\ UNCHANGED <<graph, A, B>>
              ELSE /\ frames' = [rest EXCEPT ![Len(rest)].i = @ + 1]
                   /\ B' = NocycleB(B, caller.v, v)
                   /\ A' = NocycleA(A, caller.v, v)
                   /\ graph' = GraphAfter(graph, A')
    /\ UNCHANGED <<mode, pc, tarjanVars, scc_i, total_cycles, nodes, mark, stack,
                   all_cycles, uframes, start_candidates, cand_i, results>>

(***************************************************************************)
(* The week-1 reference and the arbitrary-order driver, run after the      *)
(* week-2 pipeline on the same graph.                                      *)
(***************************************************************************)
\* SL1.py lines 124-125 with __init__ (14-30) and the head of run() (96-103).
StartWeek1 ==
    /\ pc = "done"
    /\ mode = "week2"
    /\ mode' = "week1"
    /\ NewDetector(Keys(graph), CopiedA(graph), StartCandidates(Keys(graph), graph))
    /\ pc' = "run"
    /\ UNCHANGED <<graph, tarjanVars, scc_i, total_cycles, results>>

\* The week-2 driver once more over the same components, lines 137-147, with
\* the start candidates of every component in an arbitrary order.
StartAnyOrder ==
    /\ pc = "done"
    /\ mode = "week2"
    /\ mode' = "anyorder"
    /\ scc_i' = 1
    /\ total_cycles' = <<>>
    /\ pc' = "orchestrate"
    /\ UNCHANGED <<graph, tarjanVars, slVars, results>>

\* A list without its repeated entries, first occurrences kept.
DedupList(l) == SelectSeq([i \in DOMAIN l |-> IF \E j \in 1..(i - 1) : l[j] = l[i]
                                                THEN 0 ELSE l[i]],
                          LAMBDA x : x # 0)

\* The graph with repeated successor entries removed.
Dedup(g) == [u \in DOMAIN g |-> DedupList(g[u])]

\* A second request: the whole week-2 pipeline (lines 134-147) once more, with
\* a new TarjanPreprocessing, on the mapping g.
RunAgain(m, g) ==
    /\ pc = "done"
    /\ mode = "week2"
    /\ mode' = m
    /\ graph' = g
    /\ index' = 0
    /\ tstack' = <<>>
    /\ indices' = <<>>
    /\ lowlink' = <<>>
    /\ on_stack' = {}
    /\ sccs' = <<>>
    /\ tframes' = <<>>
    /\ node_i' = 1
    /\ total_cycles' = <<>>
    /\ pc' = "tarjan"
    /\ UNCHANGED <<scc_i, slVars, results>>

\* The pipeline run again on the mapping it was given.
StartRerun == RunAgain("rerun", graph)

\* The pipeline run again on the mapping without its repeated entries.
StartDedup == RunAgain("dedup", Dedup(graph))

(***************************************************************************)
(* Specifications.                                                         *)
(***************************************************************************)
Init ==
    /\ graph \in Graphs
    /\ mode = "week2"
    /\ pc = "tarjan"
    /\ index = 0
    /\ tstack = <<>>
    /\ indices = <<>>
    /\ lowlink = <<>>
    /\ on_stack = {}
    /\ sccs = <<>>
    /\ tframes = <<>>
    /\ node_i = 1
    /\ scc_i = 1
    /\ total_cycles = <<>>
    /\ nodes = <<>>
    /\ A = <<>>
    /\ B = <<>>
    /\ mark = <<>>
    /\ reach = <<>>
    /\ position = <<>>
    /\ stack = <<>>
    /\ all_cycles = <<>>
    /\ frames = <<>>
    /\ uframes = <<>>
    /\ start_candidates = <<>>
    /\ cand_i = 1
    /\ results = [week2 |-> <<>>, week1 |-> <<>>, anyorder |-> <<>>,
                  rerun |-> <<>>, dedup |-> <<>>]

Tarjan == GetSccsNode \/ StrongconnectEdge \/ StrongconnectReturn \/ GetSccsReturn

Search == RunCandidate \/ CycleEdge \/ CycleExit \/ UnmarkEdge \/ UnmarkReturn
          \/ CycleReturn \/ RunReturn

Next == Tarjan \/ SkipScc \/ StartDetector \/ Search \/ Finish

\* The week-2 pipeline on one graph.
Spec == Init /\ [][Next]_vars

\* The pipeline is a sequential program: it takes its next step whenever it
\* has one.
FairSpec == Spec /\ WF_vars(Next)

NextW1 == Next \/ StartWeek1

\* The week-2 pipeline, then the week-1 reference on the same graph.
SpecW1 == Init /\ [][NextW1]_vars

NextAnyOrder == Next \/ StartAnyOrder

\* The week-2 pipeline, then the same with arbitrary start orders.
SpecAnyOrder == Init /\ [][NextAnyOrder]_vars

NextRerun == Next \/ StartRerun

\* The week-2 pipeline twice on the same mapping.
SpecRerun == Init /\ [][NextRerun]_vars

NextDedup == Next \/ StartDedup

\* The week-2 pipeline, then once more without the repeated entries.
SpecDedup == Init /\ [][NextDedup]_vars

(***************************************************************************)
(* Notions the properties are stated with.                                 *)
(***************************************************************************)
\* testing.py lines 27-34: drop the closing vertex, rotate the least vertex
\* to the front.
Normalize(cycle) ==
    IF cycle = <<>> THEN <<>>
    ELSE LET path == SubSeq(cycle, 1, Len(cycle) - 1)
             min_node == CHOOSE m \in Range(path) : \A x \in Range(path) : m <= x
             min_index == CHOOSE i \in DOMAIN path :
                              path[i] = min_node /\ \A j \in 1..(i - 1) : path[j] # min_node
         IN  SubSeq(path, min_index, Len(path)) \o SubSeq(path, 1, min_index - 1)

NormalizedList(cs) == [i \in DOMAIN cs |-> Normalize(cs[i])]

Count(cs, x) == Cardinality({i \in DOMAIN cs : cs[i] = x})

SameMultiset(cs, ds) == \A x \in Range(cs) \cup Range(ds) : Count(cs, x) = Count(ds, x)

Edge(g, u, v) == u \in DOMAIN g /\ Contains(g[u], v)

AllVertices(g) == DOMAIN g \cup UNION {Range(g[v]) : v \in DOMAIN g}

DanglingTargets(g) == AllVertices(g) \ DOMAIN g

Stripped(g) == [v \in DOMAIN g |-> SelectSeq(g[v], LAMBDA w : w \in DOMAIN g)]

\* Brute force: every rotation-normalised elementary cycle of g.
ElementaryCycles(g) ==
    {p \in SeqsUpTo(DOMAIN g, Cardinality(DOMAIN g)) :
        /\ p # <<>>
        /\ NoRepeat(p)
        /\ \A i \in 2..Len(p) : p[1] < p[i]
        /\ \A i \in 1..Len(p) : Edge(g, p[i], p[(i % Len(p)) + 1])}

IsElementaryCycleOf(c, g) ==
    /\ Len(c) >= 2
    /\ c[1] = c[Len(c)]
    /\ NoRepeat(SubSeq(c, 1, Len(c) - 1))
    /\ \A i \in 1..(Len(c) - 1) : Edge(g, c[i], c[i + 1])

ReachableFrom(g, u) ==
    LET RECURSIVE Close(_)
        Close(S) == LET T == S \cup UNION {Range(Get(g, x)) : x \in S}
                    IN  IF T = S THEN S ELSE Close(T)
    IN  Close({u})

MutuallyReachable(g, u, v) == v \in ReachableFrom(g, u) /\ u \in ReachableFrom(g, v)

\* v is alone in its strongly connected component and has no self-loop
LoneVertex(g, v) ==
    /\ ~Edge(g, v, v)
    /\ \A u \in AllVertices(g) : MutuallyReachable(g, u, v) => u = v

Week2Returned == pc = "done" /\ mode = "week2"

(***************************************************************************)
(* The properties.                                                         *)
(***************************************************************************)
\* C1: on a well-formed graph without repeated successors the pipeline
\* returns every elementary cycle exactly once: the rotation-normalised list
\* has no repeats and is the brute-force set of elementary cycles.
C1_EachCycleExactlyOnce ==
    (Week2Returned /\ WellFormed(graph) /\ NoRepeatedSuccessors(graph))
        => /\ NoRepeat(NormalizedList(results.week2))
           /\ Range(NormalizedList(results.week2)) = ElementaryCycles(graph)

\* Fixture B has returned its three rotation classes.
C1_Witness ==
    /\ Week2Returned
    /\ graph = FixtureB
    /\ Range(NormalizedList(results.week2)) = {<<1, 2>>, <<3, 4, 5>>, <<3, 5>>}

\* C2: whatever the graph, every sequence appended to all_cycles is closed,
\* elementary, and follows edges of the input graph.
C2_ClosedElementary ==
    \A i \in DOMAIN all_cycles : IsElementaryCycleOf(all_cycles[i], graph)

\* A self-loop and a cycle through MaxVertex vertices have been appended.
C2_Witness ==
    /\ \E i \in DOMAIN all_cycles : Len(all_cycles[i]) = 2
    /\ \E i \in DOMAIN all_cycles : Len(all_cycles[i]) = MaxVertex + 1

\* C3: for all graphs, repeated successor entries included, no two returned
\* sequences are equal or rotations of each other.
C3_NoRotationsAnyGraph ==
    Week2Returned => NoRepeat(NormalizedList(results.week2))

\* C4: on a well-formed graph the enumeration terminates: the driver
\* finishes, which it does only after every cycle call and every _unmark
\* cascade has returned.
C4_Terminates ==
    WellFormed(graph) => <>(pc = "done" /\ frames = <<>> /\ uframes = <<>>)

\* An _unmark cascade is two calls deep on a well-formed graph.
C4_Witness ==
    /\ WellFormed(graph)
    /\ Len(uframes) >= 2
    /\ Len(frames) >= 2

\* C5: the vertices of a returned cycle lie in one strongly connected
\* component, a vertex that is alone in its component without a self-loop
\* is in no returned cycle, and no search context is run on such a component.
C5_WithinOneScc ==
    /\ Week2Returned =>
          \A i \in DOMAIN results.week2 :
              \A u, v \in Range(results.week2[i]) :
                  MutuallyReachable(graph, u, v) /\ ~LoneVertex(graph, v)
    /\ (pc = "run" /\ mode = "week2") =>
          ~(Len(nodes) = 1 /\ LoneVertex(graph, nodes[1]))

\* Cycles were returned for a graph that also has a lone vertex.
C5_Witness ==
    /\ Week2Returned
    /\ results.week2 # <<>>
    /\ \E v \in DOMAIN graph : LoneVertex(graph, v)
    /\ \E k \in DOMAIN sccs : Len(sccs[k]) = 1 /\ Edge(graph, sccs[k][1], sccs[k][1])

\* C6: without repeated successor entries, [v, v] is returned exactly once
\* for each vertex v with a self-loop, and is never appended a second time
\* while the search runs.
C6_SelfLoopOnce ==
    (mode = "week2" /\ NoRepeatedSuccessors(graph)) =>
        \A v \in DOMAIN graph :
            Edge(graph, v, v) =>
                /\ Count(all_cycles, <<v, v>>) <= 1
                /\ pc = "done" => Count(results.week2, <<v, v>>) = 1

\* A vertex with a self-loop is explored again (its reach flag is already
\* set) and its loop over the successors is over.
C6_Witness ==
    /\ mode = "week2"
    /\ NoRepeatedSuccessors(graph)
    /\ frames # <<>>
    /\ reach[Top.v]
    /\ Edge(graph, Top.v, Top.v)
    /\ Top.i > Len(Top.snap)
    /\ Count(all_cycles, <<Top.v, Top.v>>) = 1

\* C7: with a dangling edge the pipeline does not fail; the dangling target
\* is a singleton component, appears in no returned cycle, and the cycles
\* returned are those of the graph without its dangling edges.
C7_DanglingEdges ==
    (mode = "week2" /\ ~WellFormed(graph)) =>
        /\ pc # "crashed"
        /\ pc # "tarjan" => \A d \in DanglingTargets(graph) : Contains(sccs, <<d>>)
        /\ pc = "done" =>
              /\ \A i \in DOMAIN results.week2 :
                    Range(results.week2[i]) \cap DanglingTargets(graph) = {}
              /\ Range(NormalizedList(results.week2)) = ElementaryCycles(Stripped(graph))

\* A cycle was returned through a vertex that has a dangling edge.
C7_Witness ==
    /\ Week2Returned
    /\ \E i \in DOMAIN results.week2 :
          \E v \in Range(results.week2[i]) :
              Range(graph[v]) \cap DanglingTargets(graph) # {}

\* C8: on a well-formed graph without repeated successors the week-1
\* reference (whole graph) and the week-2 pipeline (per component) return the
\* same rotation-normalised cycles with the same multiplicities.
C8_Week1EqualsWeek2 ==
    (pc = "done" /\ mode = "week1" /\ WellFormed(graph) /\ NoRepeatedSuccessors(graph))
        => SameMultiset(NormalizedList(results.week1), NormalizedList(results.week2))

\* Both drivers have returned on Fixture A.
C8_Witness ==
    /\ pc = "done"
    /\ mode = "week1"
    /\ graph = FixtureA
    /\ Len(results.week1) > MaxVertex

\* C9: get_sccs returns a partition of the vertices the traversal reaches
\* (no empty list, every vertex in exactly one list) and two vertices share
\* a list exactly if each is reachable from the other.
C9_SccPartition ==
    pc # "tarjan" =>
        /\ \A k \in DOMAIN sccs : sccs[k] # <<>>
        /\ NoRepeat(Flatten(sccs))
        /\ Range(Flatten(sccs)) = AllVertices(graph)
        /\ \A u, v \in AllVertices(graph) :
              (\E k \in DOMAIN sccs : {u, v} \subseteq Range(sccs[k]))
                  <=> MutuallyReachable(graph, u, v)

\* get_sccs returned a component of two vertices, a dangling target and one more.
C9_Witness ==
    /\ pc = "orchestrate"
    /\ DanglingTargets(graph) # {}
    /\ \E k \in DOMAIN sccs : Len(sccs[k]) = 2
    /\ Len(sccs) = 3

\* C10: trying the start candidates of every component in any order returns
\* the same rotation-normalised multiset of cycles as the in-degree order.
C10_AnyStartOrder ==
    (pc = "done" /\ mode = "anyorder")
        => SameMultiset(NormalizedList(results.anyorder), NormalizedList(results.week2))

\* Another first root than the in-degree order's was used on a component of
\* MaxVertex vertices, and the cycles came out in another order.
C10_Witness ==
    /\ pc = "done"
    /\ mode = "anyorder"
    /\ Len(nodes) = MaxVertex
    /\ start_candidates[1] # StartCandidates(nodes, InducedA(graph, nodes))[1]
    /\ Len(results.anyorder) >= MaxVertex
    /\ results.anyorder # results.week2

BetweenCycleSteps == pc = "run" /\ uframes = <<>>

\* C12: without repeated successor entries, between steps of cycle and for
\* every edge x -> y inside the component, x is in B[y] exactly if y is
\* missing from A[x]; B[y] holds x at most once and only vertices that have
\* an edge to y.
C12_BlockingLists ==
    (BetweenCycleSteps /\ NoRepeatedSuccessors(graph)) =>
        \A y \in Range(nodes) :
            /\ \A x \in Range(nodes) :
                  Edge(graph, x, y) => (Contains(B[y], x) <=> ~Contains(A[x], y))
            /\ NoRepeat(B[y])
            /\ \A x \in Range(B[y]) : Edge(graph, x, y)

\* An edge is blocked while another one, blocked earlier, has been restored:
\* it is back in its list, behind entries that followed it in the input.
C12_Witness ==
    /\ BetweenCycleSteps
    /\ NoRepeatedSuccessors(graph)
    /\ \E y \in Range(nodes) : B[y] # <<>>
    /\ \E x \in Range(nodes) :
          A[x] # SelectSeq(InducedA(graph, nodes)[x], LAMBDA w : Contains(A[x], w))

\* an invocation cycle(v, .) has not returned yet
InProgress(v) == \E k \in DOMAIN frames : frames[k].v = v

\* C13 as stated: in every state of a component's search, from the
\* construction of the search context to the end of run(), every vertex
\* whose mark is false has position |SCC| + 1.
C13_SentinelWhenUnmarked ==
    pc = "run" => \A v \in Range(nodes) : ~mark[v] => position[v] = Len(nodes) + 1

\* C13 as amended: in every state of a component's search, a vertex whose
\* mark is false and on which no invocation of cycle is in progress has
\* position |SCC| + 1 once its reach flag is true, and 0 while it is false.
C13_SentinelOnceReached ==
    pc = "run" =>
        \A v \in Range(nodes) :
            (~mark[v] /\ ~InProgress(v)) =>
                position[v] = IF reach[v] THEN Len(nodes) + 1 ELSE 0

\* During a search one vertex was concluded and unmarked again, and another
\* has not been entered yet.
C13_Witness ==
    /\ pc = "run"
    /\ frames # <<>>
    /\ \E v \in Range(nodes) : ~mark[v] /\ ~InProgress(v) /\ reach[v]
    /\ \E v \in Range(nodes) : ~mark[v] /\ ~InProgress(v) /\ ~reach[v]

\* a step that invokes cycle: a new activation is on top
Invoked == Len(frames') = Len(frames) + 1

\* C14: cycle is only invoked on a vertex whose mark is false; at every point
\* of a search (inside _unmark cascades too) the stack holds distinct
\* vertices, each marked and with its 1-based stack index as position, and
\* neither the stack nor the recursion is deeper than the component's vertex
\* count.
C14_StackWellFormed ==
    /\ [][(pc = "run" /\ Invoked) => ~mark[frames'[Len(frames')].v]]_vars
    /\ [](pc = "run" =>
             /\ NoRepeat(stack)
             /\ \A i \in DOMAIN stack : mark[stack[i]] /\ position[stack[i]] = i
             /\ Len(stack) <= Len(nodes)
             /\ Len(frames) <= Len(nodes))

\* An _unmark cascade two calls deep runs while a vertex of the component is
\* still on the stack: the cascade unmarks a vertex other than the one whose
\* activation started it, and leaves the stack's vertex marked.
C14_Witness ==
    /\ pc = "run"
    /\ Len(nodes) = MaxVertex
    /\ Len(uframes) >= 2
    /\ stack # <<>>

\* The stack depths, down to depth k of the current path, of the vertices
\* that had never been concluded when they were pushed.  The activation at
\* depth k of the recursion was entered at stack depth k.
FreshDepths(k) == {j \in 1..k : frames[j].fresh}

\* C15 as stated: in every invocation of cycle the threshold q used for the
\* comparisons is the depth of the shallowest vertex on the current path that
\* had never been concluded when it was pushed.
C15_ShallowestFresh ==
    pc = "run" =>
        \A k \in DOMAIN frames :
            /\ FreshDepths(k) # {}
            /\ \A j \in FreshDepths(k) : frames[k].q <= j
            /\ frames[k].q \in FreshDepths(k)
            /\ frames[k].st = "loop" => stack[k] = frames[k].v

\* C15 as amended: the threshold q is the depth of the deepest vertex on the
\* current path (v included) that had never been concluded when it was
\* pushed.
C15_DeepestFresh ==
    pc = "run" =>
        \A k \in DOMAIN frames :
            /\ FreshDepths(k) # {}
            /\ \A j \in FreshDepths(k) : frames[k].q >= j
            /\ frames[k].q \in FreshDepths(k)
            /\ frames[k].st = "loop" => stack[k] = frames[k].v

\* A vertex concluded before is explored again below two vertices that had
\* never been concluded: it keeps the threshold 2 of its caller.
C15_Witness ==
    /\ pc = "run"
    /\ Len(frames) >= 3
    /\ ~Top.fresh
    /\ Top.q = 2
    /\ Top.st = "loop"

\* The vertices _unmark(x) unmarks when entered in the state pre: x, and every
\* vertex marked in pre that is in the blocking list of such a vertex.
UnmarkChain(pre, x) ==
    LET RECURSIVE Close(_)
        Close(S) == LET T == S \cup {y \in DOMAIN pre.mark :
                                        /\ pre.mark[y]
                                        /\ \E u \in S : Contains(pre.B[u], y)}
                    IN  IF T = S THEN S ELSE Close(T)
    IN  Close({x})

\* The vertices in the blocking lists of that chain: their edges are restored.
UnmarkReached(pre, x) ==
    UnmarkChain(pre, x) \cup UNION {Range(pre.B[u]) : u \in UnmarkChain(pre, x)}

\* a step in which the innermost _unmark activation returns
UnmarkReturned == uframes # <<>> /\ uframes' = SubSeq(uframes, 1, Len(uframes) - 1)

\* C16: when _unmark(v) returns, v is unmarked and B[v] is empty; every y
\* that was in B[v] at entry has the edge y -> v back in A[y], and if it was
\* marked it is unmarked with its own blocking list emptied and restored in
\* the same way, transitively; A only grew, by the restored edges; marks and
\* blocking lists outside the chain, and A outside the vertices the chain's
\* blocking lists name, are as they were at entry.
C16_UnmarkPostcondition ==
    [][UnmarkReturned =>
        LET x == TopU.x
            pre == TopU.pre
            chain == UnmarkChain(pre, x)
        IN  /\ ~mark'[x]
            /\ B'[x] = <<>>
            /\ \A y \in Range(pre.B[x]) :
                  /\ Contains(A'[y], x)
                  /\ pre.mark[y] => (~mark'[y] /\ B'[y] = <<>>)
            /\ \A u \in chain :
                  /\ ~mark'[u]
                  /\ B'[u] = <<>>
                  /\ \A y \in Range(pre.B[u]) : Contains(A'[y], u)
            /\ \A u \in DOMAIN pre.mark :
                  /\ u \notin chain => (mark'[u] = pre.mark[u] /\ B'[u] = pre.B[u])
                  /\ u \notin UnmarkReached(pre, x) => A'[u] = pre.A[u]
                  /\ SubSeq(A'[u], 1, Len(pre.A[u])) = pre.A[u]
                  /\ \A w \in DOMAIN pre.mark :
                        Count(A'[u], w) = Count(pre.A[u], w)
                            + (IF w \in chain THEN Count(pre.B[w], u) ELSE 0)
    ]_vars

\* The outermost _unmark is about to return from a cascade that unmarked
\* a second vertex, while a marked vertex outside the chain keeps its mark.
C16_Witness ==
    /\ pc = "run"
    /\ Len(uframes) = 1
    /\ TopU.i > Len(TopU.snap)
    /\ Cardinality(UnmarkChain(TopU.pre, TopU.x)) >= 2
    /\ \E u \in DOMAIN mark : u \notin UnmarkChain(TopU.pre, TopU.x) /\ mark[u]

\* The number of edges into v from the vertices of ns, v's own included.
InnerIndegree(g, ns, v) ==
    Cardinality({e \in UNION {{u} \X DOMAIN Get(g, u) : u \in Range(ns)} :
                    Get(g, e[1])[e[2]] = v})

\* The vertex of maximal in-degree inside ns, the earliest in ns among ties.
BestRoot(g, ns) ==
    LET best(i) == \A j \in DOMAIN ns :
                       InnerIndegree(g, ns, ns[j]) <= InnerIndegree(g, ns, ns[i])
    IN  ns[CHOOSE i \in DOMAIN ns : best(i) /\ \A j \in 1..(i - 1) : ~best(j)]

\* a step of run() that invokes cycle(s, 0) as a fresh root
RootInvoked == pc = "run" /\ frames = <<>> /\ frames' # <<>>

\* C17: in the week-2 pipeline a root call is made only for the first start
\* candidate, which is the vertex of maximal in-degree inside the component
\* (the earliest in the component's list among ties); that call is always
\* made (no vertex is concluded before it), and when it has returned every
\* vertex of the component is concluded, so that no later candidate is a
\* root.
C17_SingleRoot ==
    /\ [][RootInvoked => (cand_i = 1 /\ frames'[1].v = BestRoot(graph, nodes))]_vars
    /\ []((pc = "run" /\ cand_i = 1) =>
             (frames = <<>> /\ \A v \in Range(nodes) : ~reach[v]))
    /\ []((pc = "run" /\ cand_i > 1 /\ frames = <<>>) =>
             \A v \in Range(nodes) : reach[v])

\* The root call of a component of MaxVertex vertices has returned; the root
\* was not the first vertex of the component's list, and another vertex has
\* the same in-degree.
C17_Witness ==
    /\ pc = "run"
    /\ frames = <<>>
    /\ cand_i = 2
    /\ Len(nodes) = MaxVertex
    /\ start_candidates[1] # nodes[1]
    /\ \E v \in Range(nodes) :
          /\ v # start_candidates[1]
          /\ InnerIndegree(graph, nodes, v)
                = InnerIndegree(graph, nodes, start_candidates[1])

\* a step in which the innermost cycle activation returns
CycleReturned == pc = "run" /\ frames # <<>> /\ Len(frames') = Len(frames) - 1

\* C18: without repeated successor entries, cycle(v, q) returns true
\* exactly if a cycle was appended to all_cycles during the invocation;
\* returning false, v is still marked, its position is the sentinel, A[v] is
\* empty and v is in B[w] for every successor w inside the component;
\* returning true, v is unmarked and B[v] is empty.
C18_CyclePostcondition ==
    [][(CycleReturned /\ NoRepeatedSuccessors(graph)) =>
        LET v == Top.v
        IN  /\ Top.f <=> Len(all_cycles) > Top.n
            /\ reach'[v]
            /\ ~Top.f =>
                  /\ mark[v]
                  /\ position'[v] = Len(nodes) + 1
                  /\ A[v] = <<>>
                  /\ \A w \in Range(nodes) : Edge(graph, v, w) => Contains(B[w], v)
            /\ Top.f => (~mark[v] /\ B[v] = <<>>)
    ]_vars

\* A nested invocation is about to return false, its vertex's edge blocked,
\* after cycles were found by other invocations.
C18_Witness ==
    /\ pc = "run"
    /\ NoRepeatedSuccessors(graph)
    /\ Len(frames) >= 2
    /\ Top.st = "exit"
    /\ ~Top.f
    /\ InducedA(graph, nodes)[Top.v] # <<>>
    /\ all_cycles # <<>>

\* C19: between steps of cycle, outside a running _unmark cascade, a vertex
\* with a non-empty blocking list is marked; and a step that adds to a
\* vertex's blocking list finds that vertex marked.
C19_BlockedIntoMarked ==
    /\ [](BetweenCycleSteps => \A w \in Range(nodes) : B[w] # <<>> => mark[w])
    /\ [][pc = "run" =>
             \A w \in Range(nodes) : Len(B'[w]) > Len(B[w]) => (mark[w] /\ mark'[w])]_vars

\* A vertex was concluded and unmarked, its blocking list empty, and an edge
\* is blocked into a vertex that is marked.
C19_Witness ==
    /\ BetweenCycleSteps
    /\ \E w \in Range(nodes) : B[w] # <<>> /\ mark[w]
    /\ \E u \in Range(nodes) : reach[u] /\ ~mark[u] /\ B[u] = <<>>

\* C20: for every graph, the pipeline returns the same set of
\* rotation-normalised cycles as it returns for the graph with its repeated
\* successor entries removed, and every sequence it returns for the graph
\* with repeats is closed and elementary.
C20_RepeatsChangeCountsOnly ==
    (pc = "done" /\ mode = "dedup") =>
        /\ Range(NormalizedList(results.week2)) = Range(NormalizedList(results.dedup))
        /\ \A i \in DOMAIN results.week2 : IsElementaryCycleOf(results.week2[i], graph)

\* Both runs have returned, and the graph with repeated entries gave the
\* same cycles more often.
C20_Witness ==
    /\ pc = "done"
    /\ mode = "dedup"
    /\ results.dedup # <<>>
    /\ Len(results.week2) > Len(results.dedup)
    /\ \E i \in DOMAIN results.week2 : Len(results.week2[i]) > 2

====
